---- MODULE Spec2Model ----
(***************************************************************************)
(* Model of the action resolution engine of dj_engine: the Academy action  *)
(* (actions/academy.py), the Reserve-Turn-Order action                     *)
(* (actions/reserve_turn_order.py) and the helpers of engine_utils.py,     *)
(* over the GameState / PlayerState / WorkerState aggregates and the rule  *)
(* tables of data_loader.py.                                               *)
(*                                                                         *)
(* Python's 0-based list indices are kept in the requests; sequences of    *)
(* the model are 1-based, so list[i] is read as seq[i + 1].  None is the   *)
(* string "NONE" in the academy grid, and an optional record is a sequence *)
(* of length 0 or 1.  A dict with default 0 (seals) is a total function    *)
(* whose absent keys are 0.  An attribute an object does not have is a     *)
(* field missing from its record.                                          *)
(***************************************************************************)
EXTENDS Integers, Sequences, FiniteSets, TLC

VARIABLES game_state, all_game_data, call

vars == <<game_state, all_game_data, call>>

(***************************************************************************)
(* Bounds of the model and constants of the program.                       *)
(***************************************************************************)
NumWorkers == 2
MaxTempKnowledge == 2
RichCoins == 10
MaxHeld == 2
MaxNeeded == 2
UnlockCost == 2

player_count == 2
StartCoins == 4
StartTempKnowledge == 1
PlacementPenalty == 3
ReserveGain == 3
MinScrollRow == 1
MaxScrollRow == 4
MinSealIndex == 0
MaxSealIndex == 2

Players == 0 .. (player_count - 1)
WorkerIds == 0 .. (NumWorkers - 1)

SealColor == {"BLUE", "GREEN", "YELLOW", "RED", "SPECIAL"}

NoSeals == [c \in SealColor |-> 0]

RECURSIVE SumOver(_, _)
SumOver(f, S) ==
    IF S = {} THEN 0
    ELSE LET x == CHOOSE y \in S : TRUE
         IN f[x] + SumOver(f, S \ {x})

(***************************************************************************)
(* exceptions.py: the error classes.  InsufficientResourcesError is a      *)
(* subclass of InvalidActionError, which is a subclass of GameError;       *)
(* AttributeError and ValueError are Python's own and are no GameError.    *)
(***************************************************************************)
GameError == {"GameError", "InvalidActionError", "InsufficientResourcesError"}
InvalidActionError == {"InvalidActionError", "InsufficientResourcesError"}
InsufficientResourcesError == {"InsufficientResourcesError"}

Raise(kind, site, gs) == [outcome |-> [kind |-> kind, site |-> site], game_state |-> gs]
Return(gs) == [outcome |-> [kind |-> "OK", site |-> "applied"], game_state |-> gs]

(***************************************************************************)
(* engine_utils.py                                                         *)
(***************************************************************************)
\* Variant: any player who is not in debt is taken to afford the cost.
can_afford_solvent(player_state, cost) == player_state.coins >= 0

\* Variant: a player must be left with at least one coin.
can_afford_strict(player_state, cost) == player_state.coins > cost

can_afford(player_state, cost) == player_state.coins >= cost

\* Variant: the coins are debited before the sign of the cost is looked at.
spend_coins_debit_first(player_state, cost) ==
    [raised |-> cost < 0, player_state |-> [player_state EXCEPT !.coins = @ - cost]]

\* Variant: a stub like spend_temp_knowledge, nothing is debited.
spend_coins_stub(player_state, cost) ==
    [raised |-> cost < 0, player_state |-> player_state]

\* raised: the ValueError of a negative cost; otherwise coins are debited.
spend_coins(player_state, cost) ==
    IF cost < 0 THEN [raised |-> TRUE, player_state |-> player_state]
    ELSE [raised |-> FALSE,
          player_state |-> IF cost > 0
                           THEN [player_state EXCEPT !.coins = @ - cost]
                           ELSE player_state]

\* Variant: a stub like gain_temp_knowledge, nothing is credited.
gain_coins_stub(player_state, amount) ==
    [raised |-> amount < 0, player_state |-> player_state]

gain_coins(player_state, amount) ==
    IF amount < 0 THEN [raised |-> TRUE, player_state |-> player_state]
    ELSE [raised |-> FALSE,
          player_state |-> IF amount > 0
                           THEN [player_state EXCEPT !.coins = @ + amount]
                           ELSE player_state]

\* Variant: the amount is debited.
spend_temp_knowledge_debit(player_state, amount) ==
    [player_state EXCEPT !.temporary_knowledge = @ - amount]

\* The body of spend_temp_knowledge is `pass`: nothing is debited.
spend_temp_knowledge(player_state, amount) == player_state

\* Variant: the difference is taken as it is, a surplus counts as negative.
Deficit_signed(worker, requirements, seal_color) ==
    requirements[seal_color] - worker.seals[seal_color]

\* The deficit of one required colour: count_needed - count_possessed when > 0.
Deficit(worker, requirements, seal_color) ==
    LET deficit == requirements[seal_color] - worker.seals[seal_color]
    IN IF deficit > 0 THEN deficit ELSE 0

TotalDeficit(worker, requirements) ==
    SumOver([c \in DOMAIN requirements |-> Deficit(worker, requirements, c)],
            DOMAIN requirements)

\* Variant: the differences are summed as they are, so that a surplus in one
\* colour offsets the deficit in another.
check_wax_seal_req_net(worker, requirements, temp_knowledge_available) ==
    IF DOMAIN requirements = {} THEN <<TRUE, 0>>
    ELSE LET net == SumOver([c \in DOMAIN requirements |->
                                requirements[c] - worker.seals[c]],
                            DOMAIN requirements)
             temp_knowledge_needed == IF net > 0 THEN net ELSE 0
         IN IF temp_knowledge_needed <= temp_knowledge_available
            THEN <<TRUE, temp_knowledge_needed>>
            ELSE <<FALSE, 0>>

check_wax_seal_req(worker, requirements, temp_knowledge_available) ==
    IF DOMAIN requirements = {} THEN <<TRUE, 0>>
    ELSE LET temp_knowledge_needed == TotalDeficit(worker, requirements)
         IN IF temp_knowledge_needed <= temp_knowledge_available
            THEN <<TRUE, temp_knowledge_needed>>
            ELSE <<FALSE, 0>>

\* dict.get(location_id, []) on main_board_workers.
Occupants(main_board_workers, location_id) ==
    IF location_id \in DOMAIN main_board_workers
    THEN main_board_workers[location_id]
    ELSE <<>>

\* Variant: a single occupant is let pass, the penalty starts at two.
calculate_placement_penalty_crowded(gs, location_id, player_index, board_actions_data) ==
    LET main_board_actions == board_actions_data.main_board_actions
    IN IF location_id \notin DOMAIN main_board_actions THEN 0
       ELSE IF main_board_actions[location_id].placement_type
                 # "CIRCULAR_MAGNIFYING_GLASS" THEN 0
       ELSE IF Len(Occupants(gs.main_board_workers, location_id)) < 2 THEN 0
       ELSE PlacementPenalty

\* Variant: only workers of players other than player_index count.
calculate_placement_penalty_others(gs, location_id, player_index, board_actions_data) ==
    LET main_board_actions == board_actions_data.main_board_actions
        occupying_placements == Occupants(gs.main_board_workers, location_id)
    IN IF location_id \notin DOMAIN main_board_actions THEN 0
       ELSE IF main_board_actions[location_id].placement_type
                 # "CIRCULAR_MAGNIFYING_GLASS" THEN 0
       ELSE IF \A i \in DOMAIN occupying_placements :
                    occupying_placements[i][1] = player_index THEN 0
       ELSE PlacementPenalty

\* Variant: the placement class is not looked at.
calculate_placement_penalty_any_class(gs, location_id, player_index, board_actions_data) ==
    LET main_board_actions == board_actions_data.main_board_actions
    IN IF location_id \notin DOMAIN main_board_actions THEN 0
       ELSE IF Occupants(gs.main_board_workers, location_id) = <<>> THEN 0
       ELSE PlacementPenalty

calculate_placement_penalty(gs, location_id, player_index, board_actions_data) ==
    LET main_board_actions == board_actions_data.main_board_actions
    IN IF location_id \notin DOMAIN main_board_actions THEN 0
       ELSE IF main_board_actions[location_id].placement_type
                 # "CIRCULAR_MAGNIFYING_GLASS" THEN 0
       ELSE IF Occupants(gs.main_board_workers, location_id) = <<>> THEN 0
       ELSE PlacementPenalty

(***************************************************************************)
(* Lookups the handlers make.                                              *)
(***************************************************************************)
\* next((w for w in player_state.workers if w.worker_id == worker_id), None):
\* the position of the first worker with that id, 0 for None.
FindWorker(workers, worker_id) ==
    LET hits == {i \in DOMAIN workers : workers[i].worker_id = worker_id}
    IN IF hits = {} THEN 0
       ELSE CHOOSE i \in hits : \A j \in hits : i <= j

\* An instance made by WorkerState(worker_id=..., row_index=...) has no
\* attribute is_placed: reading it raises AttributeError.
HasIsPlaced(worker) == "is_placed" \in DOMAIN worker

\* Variant: a worker without a row of its own is given the first row.
FindRow_fallback(worker_rows, row_index) ==
    LET hits == {i \in DOMAIN worker_rows : worker_rows[i].row_index = row_index}
    IN IF hits = {} THEN 1
       ELSE CHOOSE i \in hits : \A j \in hits : i <= j

\* next((row for row in worker_rows if row.row_index == worker.row_index), None)
FindRow(worker_rows, row_index) ==
    LET hits == {i \in DOMAIN worker_rows : worker_rows[i].row_index = row_index}
    IN IF hits = {} THEN 0
       ELSE CHOOSE i \in hits : \A j \in hits : i <= j

\* Variant: the pair is put at the front of the occupancy sequence.
PlaceWorker_front(main_board_workers, location_id, player_index, worker_id) ==
    [k \in DOMAIN main_board_workers \cup {location_id} |->
        IF k = location_id
        THEN <<<<player_index, worker_id>>>>
                 \o Occupants(main_board_workers, location_id)
        ELSE main_board_workers[k]]

\* main_board_workers.setdefault(location_id, []).append((player_index, worker_id))
PlaceWorker(main_board_workers, location_id, player_index, worker_id) ==
    [k \in DOMAIN main_board_workers \cup {location_id} |->
        IF k = location_id
        THEN Append(Occupants(main_board_workers, location_id),
                    <<player_index, worker_id>>)
        ELSE main_board_workers[k]]

(***************************************************************************)
(* actions/academy.py, section 5: the writes of an accepted Academy        *)
(* action, in the order of the code.  The first of them that can raise is  *)
(* spend_coins (ValueError on a negative total); what was written before   *)
(* it stays written.                                                       *)
(***************************************************************************)
\* Variant: the slot is counted but the seal is not added to the map.
AddSeal_no_seal(worker, seal_to_take) ==
    [worker EXCEPT !.seal_slots_filled = @ + 1]

\* Variant: the seal is counted but the slot counter is left alone.
AddSeal_no_slot(worker, seal_to_take) ==
    [worker EXCEPT !.seals[seal_to_take] = @ + 1]

\* worker.seals[seal] = worker.seals.get(seal, 0) + 1; seal_slots_filled += 1
AddSeal(worker, seal_to_take) ==
    [worker EXCEPT !.seals[seal_to_take] = @ + 1, !.seal_slots_filled = @ + 1]

\* Variant: the seal is handed out but the grid cell keeps it.
ApplyAcademy_keep_cell(gs, player_index, wi, location_id, row_idx, col_idx, temp_knowledge_spent, total_cost) ==
    LET player_state == gs.players[player_index]
        worker == player_state.workers[wi]
        seal_to_take == gs.academy_seals[row_idx + 1][col_idx + 1]
        ps1 == IF temp_knowledge_spent > 0
               THEN spend_temp_knowledge(player_state, temp_knowledge_spent)
               ELSE player_state
        paid == spend_coins(ps1, total_cost)
        gs1 == [gs EXCEPT !.players[player_index] = paid.player_state]
        worker2 == AddSeal([worker EXCEPT !.is_placed = TRUE], seal_to_take)
        gs2 == [gs1 EXCEPT
                  !.main_board_workers =
                      PlaceWorker(@, location_id, player_index, worker.worker_id),
                  !.players[player_index].workers[wi] = worker2]
    IN IF paid.raised THEN Raise("ValueError", "negative_cost", gs1)
       ELSE Return(gs2)

\* Variant: the seal is also taken off the general supply.
ApplyAcademy_from_supply(gs, player_index, wi, location_id, row_idx, col_idx, temp_knowledge_spent, total_cost) ==
    LET player_state == gs.players[player_index]
        worker == player_state.workers[wi]
        seal_to_take == gs.academy_seals[row_idx + 1][col_idx + 1]
        ps1 == IF temp_knowledge_spent > 0
               THEN spend_temp_knowledge(player_state, temp_knowledge_spent)
               ELSE player_state
        paid == spend_coins(ps1, total_cost)
        gs1 == [gs EXCEPT !.players[player_index] = paid.player_state]
        worker2 == AddSeal([worker EXCEPT !.is_placed = TRUE], seal_to_take)
        gs2 == [gs1 EXCEPT
                  !.main_board_workers =
                      PlaceWorker(@, location_id, player_index, worker.worker_id),
                  !.players[player_index].workers[wi] = worker2,
                  !.academy_seals[row_idx + 1][col_idx + 1] = "NONE",
                  !.available_seals[seal_to_take] = @ - 1]
    IN IF paid.raised THEN Raise("ValueError", "negative_cost", gs1)
       ELSE Return(gs2)

\* Variant: the turn passes to the next player.
ApplyAcademy_next_turn(gs, player_index, wi, location_id, row_idx, col_idx, temp_knowledge_spent, total_cost) ==
    LET player_state == gs.players[player_index]
        worker == player_state.workers[wi]
        seal_to_take == gs.academy_seals[row_idx + 1][col_idx + 1]
        ps1 == IF temp_knowledge_spent > 0
               THEN spend_temp_knowledge(player_state, temp_knowledge_spent)
               ELSE player_state
        paid == spend_coins(ps1, total_cost)
        gs1 == [gs EXCEPT !.players[player_index] = paid.player_state]
        worker2 == AddSeal([worker EXCEPT !.is_placed = TRUE], seal_to_take)
        gs2 == [gs1 EXCEPT
                  !.main_board_workers =
                      PlaceWorker(@, location_id, player_index, worker.worker_id),
                  !.players[player_index].workers[wi] = worker2,
                  !.academy_seals[row_idx + 1][col_idx + 1] = "NONE",
                  !.current_player_index = (@ + 1) % player_count]
    IN IF paid.raised THEN Raise("ValueError", "negative_cost", gs1)
       ELSE Return(gs2)

\* Variant: the worker is put on the board but not flagged as placed.
ApplyAcademy_unflagged(gs, player_index, wi, location_id, row_idx, col_idx, temp_knowledge_spent, total_cost) ==
    LET player_state == gs.players[player_index]
        worker == player_state.workers[wi]
        seal_to_take == gs.academy_seals[row_idx + 1][col_idx + 1]
        ps1 == IF temp_knowledge_spent > 0
               THEN spend_temp_knowledge(player_state, temp_knowledge_spent)
               ELSE player_state
        paid == spend_coins(ps1, total_cost)
        gs1 == [gs EXCEPT !.players[player_index] = paid.player_state]
        worker2 == AddSeal(worker, seal_to_take)
        gs2 == [gs1 EXCEPT
                  !.main_board_workers =
                      PlaceWorker(@, location_id, player_index, worker.worker_id),
                  !.players[player_index].workers[wi] = worker2,
                  !.academy_seals[row_idx + 1][col_idx + 1] = "NONE"]
    IN IF paid.raised THEN Raise("ValueError", "negative_cost", gs1)
       ELSE Return(gs2)

ApplyAcademy(gs, player_index, wi, location_id, row_idx, col_idx, temp_knowledge_spent, total_cost) ==
    LET player_state == gs.players[player_index]
        worker == player_state.workers[wi]
        seal_to_take == gs.academy_seals[row_idx + 1][col_idx + 1]
        ps1 == IF temp_knowledge_spent > 0
               THEN spend_temp_knowledge(player_state, temp_knowledge_spent)
               ELSE player_state
        paid == spend_coins(ps1, total_cost)
        gs1 == [gs EXCEPT !.players[player_index] = paid.player_state]
        worker2 == AddSeal([worker EXCEPT !.is_placed = TRUE], seal_to_take)
        gs2 == [gs1 EXCEPT
                  !.main_board_workers =
                      PlaceWorker(@, location_id, player_index, worker.worker_id),
                  !.players[player_index].workers[wi] = worker2,
                  !.academy_seals[row_idx + 1][col_idx + 1] = "NONE"]
    IN IF paid.raised THEN Raise("ValueError", "negative_cost", gs1)
       ELSE Return(gs2)

(***************************************************************************)
(* actions/academy.py, sections 3 and 4: penalty, scroll cost, slot cost,  *)
(* the slot-full check in between, and affordability.                      *)
(***************************************************************************)
\* Variant: off by one, a row is full only beyond max_seals.
SlotsFull_beyond(worker, worker_row_def) ==
    worker.seal_slots_filled > worker_row_def.max_seals

\* The worker's row has no free seal slot.
SlotsFull(worker, worker_row_def) ==
    worker.seal_slots_filled >= worker_row_def.max_seals

\* Variant: the slot is picked by the column of the chosen cell.
CostAcademy_by_cell(gs, player_index, wi, location_id, chosen_scroll_row, chosen_seal_index, temp_knowledge_spent, data) ==
    LET player_state == gs.players[player_index]
        worker == player_state.workers[wi]
        placement_penalty ==
            calculate_placement_penalty(gs, location_id, player_index,
                [main_board_actions |-> data.main_board_actions])
    IN IF chosen_scroll_row \notin DOMAIN data.academy_scrolls
       THEN Raise("GameError", "no_scroll_data", gs)
       ELSE IF data.personal_board = <<>>
       THEN Raise("GameError", "no_personal_board", gs)
       ELSE
       LET scroll_cost == data.academy_scrolls[chosen_scroll_row].cost
           worker_rows == data.personal_board[1].worker_rows
           ri == FindRow(worker_rows, worker.row_index)
       IN IF ri = 0 THEN Raise("GameError", "no_row_def", gs)
          ELSE
          LET worker_row_def == worker_rows[ri]
          IN IF SlotsFull(worker, worker_row_def)
             THEN Raise("InvalidActionError", "worker_full", gs)
             ELSE IF chosen_seal_index + 1 \notin DOMAIN worker_row_def.seal_slots
             THEN Raise("InvalidActionError", "no_slot_def", gs)
             ELSE
             LET personal_board_cost ==
                     worker_row_def.seal_slots[chosen_seal_index + 1].placement_cost
                 total_cost == placement_penalty + scroll_cost + personal_board_cost
             IN IF ~can_afford(player_state, total_cost)
                THEN Raise("InsufficientResourcesError", "cannot_afford", gs)
                ELSE IF player_state.temporary_knowledge < temp_knowledge_spent
                THEN Raise("InsufficientResourcesError", "temp_knowledge_short", gs)
                ELSE ApplyAcademy(gs, player_index, wi, location_id,
                                  chosen_scroll_row - 1, chosen_seal_index,
                                  temp_knowledge_spent, total_cost)

CostAcademy(gs, player_index, wi, location_id, chosen_scroll_row, chosen_seal_index, temp_knowledge_spent, data) ==
    LET player_state == gs.players[player_index]
        worker == player_state.workers[wi]
        placement_penalty ==
            calculate_placement_penalty(gs, location_id, player_index,
                [main_board_actions |-> data.main_board_actions])
    IN IF chosen_scroll_row \notin DOMAIN data.academy_scrolls
       THEN Raise("GameError", "no_scroll_data", gs)
       ELSE IF data.personal_board = <<>>
       THEN Raise("GameError", "no_personal_board", gs)
       ELSE
       LET scroll_cost == data.academy_scrolls[chosen_scroll_row].cost
           worker_rows == data.personal_board[1].worker_rows
           ri == FindRow(worker_rows, worker.row_index)
       IN IF ri = 0 THEN Raise("GameError", "no_row_def", gs)
          ELSE
          LET worker_row_def == worker_rows[ri]
          IN IF SlotsFull(worker, worker_row_def)
             THEN Raise("InvalidActionError", "worker_full", gs)
             ELSE IF worker.seal_slots_filled + 1 \notin DOMAIN worker_row_def.seal_slots
             THEN Raise("InvalidActionError", "no_slot_def", gs)
             ELSE
             LET personal_board_cost ==
                     worker_row_def.seal_slots[worker.seal_slots_filled + 1].placement_cost
                 total_cost == placement_penalty + scroll_cost + personal_board_cost
             IN IF ~can_afford(player_state, total_cost)
                THEN Raise("InsufficientResourcesError", "cannot_afford", gs)
                ELSE IF player_state.temporary_knowledge < temp_knowledge_spent
                THEN Raise("InsufficientResourcesError", "temp_knowledge_short", gs)
                ELSE ApplyAcademy(gs, player_index, wi, location_id,
                                  chosen_scroll_row - 1, chosen_seal_index,
                                  temp_knowledge_spent, total_cost)

(***************************************************************************)
(* actions/academy.py, section 2: the wax seal requirement.                *)
(***************************************************************************)
\* Variant: the flag is read the wrong way round.
Unauthorized_inverted(temp_knowledge_needed, use_temp_knowledge) ==
    temp_knowledge_needed > 0 /\ use_temp_knowledge

\* Temporary knowledge is needed and the caller did not allow its use.
Unauthorized(temp_knowledge_needed, use_temp_knowledge) ==
    temp_knowledge_needed > 0 /\ ~use_temp_knowledge

RequireSeals(gs, player_index, wi, location_id, chosen_scroll_row, chosen_seal_index, use_temp_knowledge, data) ==
    LET player_state == gs.players[player_index]
        worker == player_state.workers[wi]
        requirements == data.main_board_actions[location_id].wax_seal_requirements
        met == check_wax_seal_req(worker, requirements,
                                  player_state.temporary_knowledge)
    IN IF DOMAIN requirements = {}
       THEN CostAcademy(gs, player_index, wi, location_id, chosen_scroll_row,
                        chosen_seal_index, 0, data)
       ELSE IF ~met[1]
       THEN Raise("InvalidActionError", "requirement_unmet", gs)
       ELSE IF Unauthorized(met[2], use_temp_knowledge)
       THEN Raise("InvalidActionError", "temp_knowledge_not_authorized", gs)
       ELSE CostAcademy(gs, player_index, wi, location_id, chosen_scroll_row,
                        chosen_seal_index, met[2], data)

(***************************************************************************)
(* actions/academy.py: perform_academy_action, from section 1 on.          *)
(***************************************************************************)
\* Variant: the index is checked before the row.
SelectorError_index_first(chosen_scroll_row, chosen_seal_index) ==
    IF ~(MinSealIndex <= chosen_seal_index /\ chosen_seal_index <= MaxSealIndex)
    THEN "invalid_seal_index"
    ELSE IF ~(MinScrollRow <= chosen_scroll_row /\ chosen_scroll_row <= MaxScrollRow)
    THEN "invalid_scroll_row"
    ELSE "ok"

\* The two range checks of the selectors: the row first, then the index.
SelectorError(chosen_scroll_row, chosen_seal_index) ==
    IF ~(MinScrollRow <= chosen_scroll_row /\ chosen_scroll_row <= MaxScrollRow)
    THEN "invalid_scroll_row"
    ELSE IF ~(MinSealIndex <= chosen_seal_index /\ chosen_seal_index <= MaxSealIndex)
    THEN "invalid_seal_index"
    ELSE "ok"

\* Variant: a locked location nobody has unlocked is refused.
perform_academy_action_lock_checked(gs, player_index, worker_id, location_id, chosen_scroll_row, chosen_seal_index, use_temp_knowledge, data) ==
    IF gs.current_player_index # player_index
    THEN Raise("InvalidActionError", "not_turn", gs)
    ELSE
    LET player_state == gs.players[player_index]
        wi == FindWorker(player_state.workers, worker_id)
    IN IF wi = 0 THEN Raise("InvalidActionError", "worker_not_found", gs)
       ELSE IF ~HasIsPlaced(player_state.workers[wi])
       THEN Raise("AttributeError", "is_placed_missing", gs)
       ELSE IF player_state.workers[wi].is_placed
       THEN Raise("InvalidActionError", "already_placed", gs)
       ELSE IF location_id \notin DOMAIN data.main_board_actions
       THEN Raise("InvalidActionError", "invalid_location", gs)
       ELSE IF data.main_board_actions[location_id].action_type # "ACADEMY"
       THEN Raise("InvalidActionError", "not_academy", gs)
       ELSE IF data.main_board_actions[location_id].locked
               /\ location_id \notin gs.unlocked_locations
       THEN Raise("InvalidActionError", "locked", gs)
       ELSE IF SelectorError(chosen_scroll_row, chosen_seal_index) # "ok"
       THEN Raise("InvalidActionError",
                  SelectorError(chosen_scroll_row, chosen_seal_index), gs)
       ELSE IF gs.academy_seals[chosen_scroll_row][chosen_seal_index + 1] = "NONE"
       THEN Raise("InvalidActionError", "no_seal", gs)
       ELSE RequireSeals(gs, player_index, wi, location_id, chosen_scroll_row,
                         chosen_seal_index, use_temp_knowledge, data)

perform_academy_action(gs, player_index, worker_id, location_id, chosen_scroll_row, chosen_seal_index, use_temp_knowledge, data) ==
    IF gs.current_player_index # player_index
    THEN Raise("InvalidActionError", "not_turn", gs)
    ELSE
    LET player_state == gs.players[player_index]
        wi == FindWorker(player_state.workers, worker_id)
    IN IF wi = 0 THEN Raise("InvalidActionError", "worker_not_found", gs)
       ELSE IF ~HasIsPlaced(player_state.workers[wi])
       THEN Raise("AttributeError", "is_placed_missing", gs)
       ELSE IF player_state.workers[wi].is_placed
       THEN Raise("InvalidActionError", "already_placed", gs)
       ELSE IF location_id \notin DOMAIN data.main_board_actions
       THEN Raise("InvalidActionError", "invalid_location", gs)
       ELSE IF data.main_board_actions[location_id].action_type # "ACADEMY"
       THEN Raise("InvalidActionError", "not_academy", gs)
       ELSE IF SelectorError(chosen_scroll_row, chosen_seal_index) # "ok"
       THEN Raise("InvalidActionError",
                  SelectorError(chosen_scroll_row, chosen_seal_index), gs)
       ELSE IF gs.academy_seals[chosen_scroll_row][chosen_seal_index + 1] = "NONE"
       THEN Raise("InvalidActionError", "no_seal", gs)
       ELSE RequireSeals(gs, player_index, wi, location_id, chosen_scroll_row,
                         chosen_seal_index, use_temp_knowledge, data)

(***************************************************************************)
(* actions/reserve_turn_order.py: perform_reserve_turn_order.              *)
(***************************************************************************)
RESERVE_TURN_ORDER == "RESERVE_TURN_ORDER"

\* Variant: every worker of the player is flagged as placed.
perform_reserve_turn_order_all_flagged(gs, player_index, worker_id) ==
    IF gs.current_player_index # player_index
    THEN Raise("InvalidActionError", "not_turn", gs)
    ELSE
    LET player_state == gs.players[player_index]
        wi == FindWorker(player_state.workers, worker_id)
    IN IF wi = 0 THEN Raise("InvalidActionError", "worker_not_found", gs)
       ELSE IF ~HasIsPlaced(player_state.workers[wi])
       THEN Raise("AttributeError", "is_placed_missing", gs)
       ELSE IF player_state.workers[wi].is_placed
       THEN Raise("InvalidActionError", "already_placed", gs)
       ELSE
       LET gs1 == [gs EXCEPT
                     !.main_board_workers =
                         PlaceWorker(@, RESERVE_TURN_ORDER, player_index, worker_id),
                     !.players[player_index].workers =
                         [i \in DOMAIN @ |-> [@[i] EXCEPT !.is_placed = TRUE]]]
           gained == gain_coins(gs1.players[player_index], ReserveGain)
       IN Return([gs1 EXCEPT !.players[player_index] = gained.player_state])

\* Variant: the worker is placed without a look at its is_placed flag.
perform_reserve_turn_order_unchecked(gs, player_index, worker_id) ==
    IF gs.current_player_index # player_index
    THEN Raise("InvalidActionError", "not_turn", gs)
    ELSE
    LET player_state == gs.players[player_index]
        wi == FindWorker(player_state.workers, worker_id)
    IN IF wi = 0 THEN Raise("InvalidActionError", "worker_not_found", gs)
       ELSE IF ~HasIsPlaced(player_state.workers[wi])
       THEN Raise("AttributeError", "is_placed_missing", gs)
       ELSE
       LET gs1 == [gs EXCEPT
                     !.main_board_workers =
                         PlaceWorker(@, RESERVE_TURN_ORDER, player_index, worker_id),
                     !.players[player_index].workers[wi].is_placed = TRUE]
           gained == gain_coins(gs1.players[player_index], ReserveGain)
       IN Return([gs1 EXCEPT !.players[player_index] = gained.player_state])

perform_reserve_turn_order(gs, player_index, worker_id) ==
    IF gs.current_player_index # player_index
    THEN Raise("InvalidActionError", "not_turn", gs)
    ELSE
    LET player_state == gs.players[player_index]
        wi == FindWorker(player_state.workers, worker_id)
    IN IF wi = 0 THEN Raise("InvalidActionError", "worker_not_found", gs)
       ELSE IF ~HasIsPlaced(player_state.workers[wi])
       THEN Raise("AttributeError", "is_placed_missing", gs)
       ELSE IF player_state.workers[wi].is_placed
       THEN Raise("InvalidActionError", "already_placed", gs)
       ELSE
       LET gs1 == [gs EXCEPT
                     !.main_board_workers =
                         PlaceWorker(@, RESERVE_TURN_ORDER, player_index, worker_id),
                     !.players[player_index].workers[wi].is_placed = TRUE]
           gained == gain_coins(gs1.players[player_index], ReserveGain)
           gs2 == [gs1 EXCEPT !.players[player_index] = gained.player_state]
       IN IF gained.raised THEN Raise("ValueError", "negative_gain", gs1)
          ELSE Return(gs2)

(***************************************************************************)
(* Rule tables (data_loader.py: BoardActionLocation, AcademyScroll,        *)
(* PersonalBoardDefinition, PersonalBoardWorkerRow, PersonalBoardSealSlot).*)
(* The JSON the loader reads is not part of the sources, so the tables are *)
(* those of the fixtures of tests/actions/test_academy.py and variants of  *)
(* them: one scroll only, no personal board, a row without definition, a   *)
(* row whose seal_slots list is shorter than max_seals, a row whose list   *)
(* is longer, a negative cost.                                             *)
(***************************************************************************)
\* unlock_cost is an optional int: <<>> for None.
Location(action_type, placement_type, locked, unlock_cost, requirements) ==
    [action_type |-> action_type, placement_type |-> placement_type,
     locked |-> locked, unlock_cost |-> unlock_cost,
     wax_seal_requirements |-> requirements]

NoRequirements == [c \in {} |-> 0]

MainBoardActions ==
    [id \in {"ACADEMY_1", "ACADEMY_2", "EXPLORE_1"} |->
        CASE id = "ACADEMY_1" ->
                 Location("ACADEMY", "CIRCULAR_MAGNIFYING_GLASS", FALSE, <<>>,
                          [c \in {"RED", "BLUE"} |-> 1])
          [] id = "ACADEMY_2" ->
                 Location("ACADEMY", "SQUARE_MAGNIFYING_GLASS", TRUE, <<UnlockCost>>,
                          NoRequirements)
          [] id = "EXPLORE_1" ->
                 Location("EXPLORE", "SQUARE", FALSE, <<>>, NoRequirements)]

SealSlots(costs) == [i \in DOMAIN costs |-> [slot_index |-> i - 1, placement_cost |-> costs[i]]]

WorkerRow(row_index, max_seals, costs) ==
    [row_index |-> row_index, max_seals |-> max_seals, seal_slots |-> SealSlots(costs)]

FixtureBoard == [worker_rows |-> <<WorkerRow(1, 3, <<1, 2, 3>>), WorkerRow(2, 3, <<1, 2, 2>>)>>]
ShortLadderBoard == [worker_rows |-> <<WorkerRow(1, 3, <<1, 2, 3>>), WorkerRow(2, 3, <<2>>)>>]
OneRowBoard == [worker_rows |-> <<WorkerRow(1, 2, <<1, 2, 3>>)>>]

Scroll(cost) == [cost |-> cost]

FixtureData ==
    [main_board_actions |-> MainBoardActions,
     academy_scrolls |-> [r \in {1} |-> Scroll(2)],
     personal_board |-> <<FixtureBoard>>]

NoBoardData == [FixtureData EXCEPT !.personal_board = <<>>]

ShortLadderData == [FixtureData EXCEPT !.personal_board = <<ShortLadderBoard>>]

NegativeData ==
    [main_board_actions |-> MainBoardActions,
     academy_scrolls |-> [r \in {1, 4} |-> IF r = 1 THEN Scroll(2) ELSE Scroll(0 - 4)],
     personal_board |-> <<OneRowBoard>>]

Tables == {FixtureData, NoBoardData, ShortLadderData, NegativeData}

\* No cost of the tables is negative.
NonNegativeCosts(data) ==
    /\ \A r \in DOMAIN data.academy_scrolls : data.academy_scrolls[r].cost >= 0
    /\ \A b \in DOMAIN data.personal_board :
         \A i \in DOMAIN data.personal_board[b].worker_rows :
           \A k \in DOMAIN data.personal_board[b].worker_rows[i].seal_slots :
             data.personal_board[b].worker_rows[i].seal_slots[k].placement_cost >= 0

(***************************************************************************)
(* Game states the calls start from (game_state.py, player.py,             *)
(* game_setup.py).  Workers have ids 0.. and row_index = id + 1, as        *)
(* setup_game numbers them.                                                *)
(***************************************************************************)
\* WorkerState(worker_id, row_index) as setup_game builds it: no is_placed.
SetupWorker(worker_id, seals) ==
    [worker_id |-> worker_id, row_index |-> worker_id + 1,
     seals |-> seals, seal_slots_filled |-> SumOver(seals, SealColor)]

\* A worker that carries the is_placed attribute the handlers read and write.
Worker(worker_id, seals, is_placed) ==
    [worker_id |-> worker_id, row_index |-> worker_id + 1,
     seals |-> seals, seal_slots_filled |-> SumOver(seals, SealColor),
     is_placed |-> is_placed]

Seals(red, blue, green) ==
    [c \in SealColor |-> CASE c = "RED" -> red [] c = "BLUE" -> blue
                           [] c = "GREEN" -> green [] OTHER -> 0]

Kits == {"setup", "novice", "veteran"}

KitWorkers(kit) ==
    [i \in 1 .. NumWorkers |->
        CASE kit = "setup" -> SetupWorker(i - 1, Seals(1, 0, 0))
          [] kit = "novice" ->
                 IF i = 1 THEN Worker(0, NoSeals, FALSE)
                 ELSE Worker(i - 1, Seals(1, 1, 0), FALSE)
          [] kit = "veteran" ->
                 IF i = 1 THEN Worker(0, Seals(2, 0, 0), FALSE)
                 ELSE Worker(i - 1, Seals(1, 1, 1), FALSE)]

\* The opponent's workers: unplaced, or the first one standing on ACADEMY_1.
OpponentWorkers(occupied) ==
    [i \in 1 .. NumWorkers |-> Worker(i - 1, NoSeals, occupied /\ i = 1)]

Player(player_index, coins, temporary_knowledge, workers) ==
    [player_index |-> player_index, coins |-> coins,
     temporary_knowledge |-> temporary_knowledge, workers |-> workers]

\* The grid of the test fixture game_state_fixture.
FixtureGrid ==
    << <<"RED", "BLUE", "GREEN">>,
       <<"YELLOW", "SPECIAL", "RED">>,
       <<"BLUE", "GREEN", "YELLOW">>,
       <<"SPECIAL", "RED", "BLUE">> >>

StartState(current, coins, temporary_knowledge, kit, occupied) ==
    [players |-> [p \in Players |->
                    IF p = current
                    THEN Player(p, coins, temporary_knowledge, KitWorkers(kit))
                    ELSE Player(p, coins, temporary_knowledge, OpponentWorkers(occupied))],
     current_player_index |-> current,
     turn_order |-> [i \in 1 .. player_count |-> i - 1],
     main_board_workers |->
         IF occupied
         THEN [k \in {"ACADEMY_1"} |-> << <<CHOOSE p \in Players : p # current, 0>> >>]
         ELSE [k \in {} |-> <<>>],
     available_seals |-> [c \in SealColor |-> IF c = "SPECIAL" THEN 12 ELSE 9],
     academy_seals |-> FixtureGrid,
     unlocked_locations |-> {"SPECIAL_ACTION_TL", "SPECIAL_ACTION_TR"}]

\* Coins and temporary knowledge the players start a run with: the amounts
\* setup_game deals, none of one and plenty of the other, and plenty of both.
Resources ==
    { <<0, MaxTempKnowledge>>, <<StartCoins, StartTempKnowledge>>,
      <<RichCoins, 0>>, <<RichCoins, MaxTempKnowledge>> }

\* No call has been made, or the caller has taken note of the last response.
NoCall(gs) ==
    [op |-> "none", player_index |-> 0, worker_id |-> 0, location_id |-> "",
     chosen_scroll_row |-> 0, chosen_seal_index |-> 0, use_temp_knowledge |-> FALSE,
     outcome |-> [kind |-> "OK", site |-> "none"], before |-> gs]

\* The starts of a run.  The tables of the test fixture are combined with
\* every kit, occupancy and amount of resources for player 0 to move (as
\* setup_game leaves it), and with well-off players for player 1 to move; the
\* tables with a fault or a negative cost with well-off players.
Init ==
    /\ \/ /\ all_game_data = FixtureData
          /\ \E res \in Resources, kit \in Kits, occupied \in BOOLEAN :
               game_state = StartState(0, res[1], res[2], kit, occupied)
       \/ /\ all_game_data = FixtureData
          /\ \E occupied \in BOOLEAN :
               game_state = StartState(1, RichCoins, MaxTempKnowledge, "novice", occupied)
       \/ /\ all_game_data \in Tables \ {FixtureData}
          /\ \E kit \in Kits \ {"setup"}, occupied \in BOOLEAN :
               game_state = StartState(0, RichCoins, MaxTempKnowledge, kit, occupied)
    /\ call = NoCall(game_state)

(***************************************************************************)
(* The requests a caller may submit.                                       *)
(***************************************************************************)
RequestWorkerIds == 0 .. NumWorkers
RequestLocations == {"ACADEMY_1", "ACADEMY_2", "EXPLORE_1", "BOGUS"}
RequestRows == {0, 1, 4, 5}
RequestIndexes == {0 - 1, 0, 2, 3}

\* `call` records the last call: its request, its outcome and the game state
\* it was made on.  The engine is synchronous (one call at a time): the caller
\* receives the response of a call, Acknowledge, before it submits the next.
Academy ==
    /\ call.op = "none"
    /\ \E player_index \in Players, worker_id \in RequestWorkerIds,
       location_id \in RequestLocations, chosen_scroll_row \in RequestRows,
       chosen_seal_index \in RequestIndexes, use_temp_knowledge \in BOOLEAN :
      LET r == perform_academy_action(game_state, player_index, worker_id,
                   location_id, chosen_scroll_row, chosen_seal_index,
                   use_temp_knowledge, all_game_data)
      IN /\ game_state' = r.game_state
         /\ call' = [op |-> "academy", player_index |-> player_index,
                     worker_id |-> worker_id, location_id |-> location_id,
                     chosen_scroll_row |-> chosen_scroll_row,
                     chosen_seal_index |-> chosen_seal_index,
                     use_temp_knowledge |-> use_temp_knowledge,
                     outcome |-> r.outcome, before |-> game_state]
         /\ UNCHANGED all_game_data

ReserveTurnOrder ==
    /\ call.op = "none"
    /\ \E player_index \in Players, worker_id \in RequestWorkerIds :
      LET r == perform_reserve_turn_order(game_state, player_index, worker_id)
      IN /\ game_state' = r.game_state
         /\ call' = [op |-> "reserve", player_index |-> player_index,
                     worker_id |-> worker_id, location_id |-> RESERVE_TURN_ORDER,
                     chosen_scroll_row |-> 0, chosen_seal_index |-> 0,
                     use_temp_knowledge |-> FALSE,
                     outcome |-> r.outcome, before |-> game_state]
         /\ UNCHANGED all_game_data

Acknowledge ==
    /\ call.op # "none"
    /\ call' = NoCall(game_state)
    /\ UNCHANGED <<game_state, all_game_data>>

Next == Academy \/ ReserveTurnOrder \/ Acknowledge

Spec == Init /\ [][Next]_vars

(***************************************************************************)
(* The helpers of engine_utils.py called on their own, as the unit tests   *)
(* of tests/actions/test_academy.py call them: check_wax_seal_req on a     *)
(* worker of the game state, its player's temporary knowledge and a        *)
(* requirement map, calculate_placement_penalty on the game state, a       *)
(* location and a player.  Neither writes anything.                        *)
(***************************************************************************)
RequirementColors == {"RED", "BLUE"}
RequirementMaps == UNION {[S -> 0 .. MaxNeeded] : S \in SUBSET RequirementColors}
SealMaps == {Seals(red, blue, 0) : red \in 0 .. MaxHeld, blue \in 0 .. MaxHeld}

\* Occupancy sequences of one location: empty, a worker of player 0, a
\* worker of player 1, one of each, two of player 1.  No worker stands on
\* two locations.
Occupancies ==
    { <<>>, << <<0, 1>> >>, << <<1, 0>> >>, << <<0, 1>>, <<1, 0>> >>,
      << <<1, 0>>, <<1, 1>> >> }

\* The occupancy dict: a location is a key once a worker was appended to it.
Board(occupants) ==
    [k \in {l \in DOMAIN occupants : occupants[l] # <<>>} |-> occupants[k]]

\* A game state whose first worker of player 0 holds `seals` and whose two
\* Academy locations are occupied as given; workers on the board are placed.
UtilsState(seals, temporary_knowledge, occupants) ==
    LET board == Board(occupants)
        start == StartState(0, StartCoins, temporary_knowledge, "novice", FALSE)
    IN [start EXCEPT
          !.main_board_workers = board,
          !.players =
              [p \in Players |->
                 [start.players[p] EXCEPT
                    !.workers =
                        [i \in 1 .. NumWorkers |->
                           Worker(i - 1,
                                  IF p = 0 /\ i = 1 THEN seals ELSE NoSeals,
                                  \E k \in DOMAIN board : \E j \in DOMAIN board[k] :
                                      board[k][j] = <<p, i - 1>>)]]]]

UtilsInit ==
    /\ all_game_data = FixtureData
    /\ \E seals \in SealMaps, temporary_knowledge \in 0 .. MaxTempKnowledge,
          occ1 \in Occupancies, occ2 \in Occupancies :
         LET gs == UtilsState(seals, temporary_knowledge,
                              [l \in {"ACADEMY_1", "ACADEMY_2"} |->
                                  IF l = "ACADEMY_1" THEN occ1 ELSE occ2])
         IN /\ \A i \in DOMAIN occ1, j \in DOMAIN occ2 : occ1[i] # occ2[j]
            /\ game_state = gs
    /\ call = NoCall(game_state)

CheckWaxSealReq ==
    /\ call.op = "none"
    /\ \E requirements \in RequirementMaps :
         LET player_state == game_state.players[0]
             worker == player_state.workers[1]
         IN call' = [op |-> "check_wax_seal_req", player_index |-> 0,
                     worker_id |-> worker.worker_id, requirements |-> requirements,
                     result |-> check_wax_seal_req(worker, requirements,
                                                   player_state.temporary_knowledge),
                     before |-> game_state]
    /\ UNCHANGED <<game_state, all_game_data>>

CalculatePlacementPenalty ==
    /\ call.op = "none"
    /\ \E location_id \in RequestLocations \cup {RESERVE_TURN_ORDER},
          player_index \in Players :
         call' = [op |-> "calculate_placement_penalty", player_index |-> player_index,
                  location_id |-> location_id,
                  result |-> calculate_placement_penalty(game_state, location_id,
                                 player_index,
                                 [main_board_actions |-> all_game_data.main_board_actions]),
                  before |-> game_state]
    /\ UNCHANGED <<game_state, all_game_data>>

UtilsNext == CheckWaxSealReq \/ CalculatePlacementPenalty \/ Acknowledge

UtilsSpec == UtilsInit /\ [][UtilsNext]_vars

(***************************************************************************)
(* Vocabulary of the properties: the last call, the state it was made on   *)
(* (call.before) and the state it left (game_state).                       *)
(***************************************************************************)
Called == call.op \in {"academy", "reserve"}
Failed == Called /\ call.outcome.kind # "OK"
AcceptedAcademy == call.op = "academy" /\ call.outcome.kind = "OK"
AcceptedReserve == call.op = "reserve" /\ call.outcome.kind = "OK"

\* The acting player and the named worker, in the state before the call.
ActorBefore == call.before.players[call.player_index]
ActorAfter == game_state.players[call.player_index]
WorkerPos == FindWorker(ActorBefore.workers, call.worker_id)
WorkerBefore == ActorBefore.workers[WorkerPos]
WorkerAfter == ActorAfter.workers[WorkerPos]
CallLocation == all_game_data.main_board_actions[call.location_id]

\* C1. Atomicity: a call of perform_academy_action or
\* perform_reserve_turn_order that ends in an error (a rejection or an
\* internal fault) leaves every field of the game state as it was.
C1_Atomicity == Failed => game_state = call.before

\* An internal fault raised inside the write phase (spend_coins refusing a
\* negative total) after temporary knowledge was due to be spent.
C1_Witness ==
    /\ call.op = "academy"
    /\ call.outcome.kind = "ValueError"
    /\ call.use_temp_knowledge
    /\ TotalDeficit(WorkerBefore, CallLocation.wax_seal_requirements) > 0

\* The cost components of an Academy call, read from the state before it.
PenaltyBefore ==
    calculate_placement_penalty(call.before, call.location_id, call.player_index,
                                [main_board_actions |-> all_game_data.main_board_actions])
ScrollCost == all_game_data.academy_scrolls[call.chosen_scroll_row].cost
RowDefOf(worker) ==
    LET rows == all_game_data.personal_board[1].worker_rows
    IN rows[FindRow(rows, worker.row_index)]
SlotCost == RowDefOf(WorkerBefore).seal_slots[WorkerBefore.seal_slots_filled + 1].placement_cost

\* C2. Coin conservation: an accepted Academy action debits the acting
\* player by placement penalty + scroll cost of the chosen row + placement
\* cost of the worker's next unfilled slot, and no other player's coins change.
C2_CoinConservation ==
    AcceptedAcademy =>
        /\ ActorBefore.coins - ActorAfter.coins = PenaltyBefore + ScrollCost + SlotCost
        /\ \A p \in Players \ {call.player_index} :
             game_state.players[p].coins = call.before.players[p].coins

\* An accepted Academy action that paid all three components.
C2_Witness ==
    /\ AcceptedAcademy
    /\ PenaltyBefore > 0 /\ ScrollCost > 0 /\ SlotCost > 0
    /\ ActorAfter.coins < ActorBefore.coins

\* The worker's total seal deficit against the requirement map of the
\* location of the call (0 for a location without requirements).
DeficitBefore == TotalDeficit(WorkerBefore, CallLocation.wax_seal_requirements)

\* C3. Substitute conservation: an accepted Academy action lowers the acting
\* player's temporary_knowledge by exactly the worker's total seal deficit
\* (with a deficit of 1 and 1 unit held, from 1 to 0).
C3_SubstituteConservation ==
    AcceptedAcademy =>
        ActorBefore.temporary_knowledge - ActorAfter.temporary_knowledge = DeficitBefore

(***************************************************************************)
(* The preconditions of section 4.1 of the specification, each stated on   *)
(* the request and the state before the call, in their fixed order.        *)
(***************************************************************************)
WrongTurn == call.before.current_player_index # call.player_index
WorkerMissing == WorkerPos = 0
\* The worker does not have is_placed == false.
WorkerUnavailable ==
    /\ ~WorkerMissing
    /\ (~HasIsPlaced(WorkerBefore) \/ WorkerBefore.is_placed)
LocationUnknown == call.location_id \notin DOMAIN all_game_data.main_board_actions
LocationNotAcademy == ~LocationUnknown /\ CallLocation.action_type # "ACADEMY"
RowOutOfRange == call.chosen_scroll_row \notin MinScrollRow .. MaxScrollRow
IndexOutOfRange == call.chosen_seal_index \notin MinSealIndex .. MaxSealIndex
CellEmpty ==
    /\ ~RowOutOfRange /\ ~IndexOutOfRange
    /\ call.before.academy_seals[call.chosen_scroll_row][call.chosen_seal_index + 1] = "NONE"

\* The rank of the earliest violated check, 0 when none is violated.  An
\* Academy request is subject to checks 1-8, a Reserve-Turn-Order request to
\* checks 1-3.
FirstViolated(op) ==
    IF WrongTurn THEN 1
    ELSE IF WorkerMissing THEN 2
    ELSE IF WorkerUnavailable THEN 3
    ELSE IF op # "academy" THEN 0
    ELSE IF LocationUnknown THEN 4
    ELSE IF LocationNotAcademy THEN 5
    ELSE IF RowOutOfRange THEN 6
    ELSE IF IndexOutOfRange THEN 7
    ELSE IF CellEmpty THEN 8
    ELSE 0

\* The error sites of the code that report each check.
CheckSites ==
    << {"not_turn"}, {"worker_not_found"}, {"already_placed", "is_placed_missing"},
       {"invalid_location"}, {"not_academy"}, {"invalid_scroll_row"},
       {"invalid_seal_index"}, {"no_seal"} >>

PassesValidation == call.op = "academy" /\ FirstViolated("academy") = 0

\* C4. Validation order: when a request violates one or more preconditions,
\* the error raised is that of the earliest violated check in the order turn,
\* worker exists, worker not placed, location resolves, location is ACADEMY,
\* row in 1..4, index in 0..2, cell holds a seal; Reserve-Turn-Order applies
\* the first three in the same order.
C4_ValidationOrder ==
    (Called /\ FirstViolated(call.op) # 0) =>
        /\ call.outcome.kind # "OK"
        /\ call.outcome.site \in CheckSites[FirstViolated(call.op)]

\* A request that violates a later check (the cell is empty) together with
\* an earlier one of another stage (the worker is already placed).
C4_Witness ==
    /\ call.op = "academy"
    /\ ~WrongTurn /\ ~WorkerMissing /\ WorkerUnavailable /\ HasIsPlaced(WorkerBefore)
    /\ IndexOutOfRange /\ RowOutOfRange /\ LocationUnknown
    /\ call.outcome.site = "already_placed"

\* Scenario C: the request passes checks 1-5, the worker has a deficit that
\* the player's temporary knowledge covers, and use_temp_knowledge is false.
ScenarioC ==
    /\ PassesValidation
    /\ DeficitBefore > 0
    /\ DeficitBefore <= ActorBefore.temporary_knowledge
    /\ ~call.use_temp_knowledge

\* C5 as stated: Scenario C is rejected with an InsufficientResourcesError.
C5_Original == ScenarioC => call.outcome.kind \in InsufficientResourcesError

\* C5, amended: Scenario C is rejected with a plain InvalidActionError (the
\* error of academy.py line 116), not an InsufficientResourcesError, and the
\* game state is unchanged.
C5_ScenarioCError ==
    ScenarioC =>
        /\ call.outcome = [kind |-> "InvalidActionError",
                           site |-> "temp_knowledge_not_authorized"]
        /\ game_state = call.before

\* Scenario C with the setup of Scenario B: a deficit of 1, 1 unit held.
C5_Witness ==
    /\ ScenarioC
    /\ DeficitBefore = 1 /\ ActorBefore.temporary_knowledge = 1
    /\ call.outcome.kind = "InvalidActionError"

\* C6. Substitute opt-in: no call lowers a player's temporary knowledge
\* unless it is an Academy call with use_temp_knowledge true; and an Academy
\* request with a deficit > 0 and use_temp_knowledge false is rejected with
\* the state unchanged, whatever the player holds.
C6_SubstituteOptIn ==
    /\ (Called /\ \E p \in Players :
                    game_state.players[p].temporary_knowledge
                        < call.before.players[p].temporary_knowledge)
         => (call.op = "academy" /\ call.use_temp_knowledge)
    /\ (call.op = "academy" /\ ~WorkerMissing /\ ~LocationUnknown
          /\ DeficitBefore > 0 /\ ~call.use_temp_knowledge)
         => (call.outcome.kind # "OK" /\ game_state = call.before)

\* A request that only the missing authorization stops: validation passes,
\* temporary knowledge and coins are plentiful.
C6_Witness ==
    /\ PassesValidation
    /\ DeficitBefore > 0 /\ ~call.use_temp_knowledge
    /\ ActorBefore.temporary_knowledge >= DeficitBefore
    /\ ActorBefore.coins = RichCoins
    /\ call.outcome.kind # "OK"

\* The tables hold a row definition for the worker's row.
HasRowDef(worker) ==
    /\ all_game_data.personal_board # <<>>
    /\ FindRow(all_game_data.personal_board[1].worker_rows, worker.row_index) # 0

\* Scenario E: the request passes checks 1-5 and the worker's
\* seal_slots_filled equals the max_seals of its row.
ScenarioE ==
    /\ PassesValidation
    /\ HasRowDef(WorkerBefore)
    /\ WorkerBefore.seal_slots_filled = RowDefOf(WorkerBefore).max_seals

SlotFullRejection ==
    call.outcome = [kind |-> "InvalidActionError", site |-> "worker_full"]

\* C7 as stated: Scenario E is rejected as slot full before any cost
\* component is looked up, whatever the coins and the cost tables.
C7_Original == ScenarioE => SlotFullRejection

\* The seal requirement of the location lets the request through.
RequirementCleared ==
    \/ DeficitBefore = 0
    \/ (call.use_temp_knowledge /\ DeficitBefore <= ActorBefore.temporary_knowledge)

\* C7, amended: Scenario E is rejected as slot full, whatever the player's
\* coins, provided the seal requirement is cleared and the scroll record of
\* the chosen row exists; the requirement check and the scroll lookup come
\* first in the code and report their own errors.
C7_ScenarioE ==
    (ScenarioE /\ RequirementCleared
       /\ call.chosen_scroll_row \in DOMAIN all_game_data.academy_scrolls)
      => (SlotFullRejection /\ game_state = call.before)

\* Slot full reported to a player who could not have paid anything.
C7_Witness ==
    /\ ScenarioE
    /\ SlotFullRejection
    /\ ActorBefore.coins = 0

\* All (player-index, worker-id) pairs on the board, location by location.
Placements(gs) ==
    UNION {{<<k, i>> : i \in DOMAIN gs.main_board_workers[k]} :
             k \in DOMAIN gs.main_board_workers}
OnBoard(gs) ==
    {gs.main_board_workers[x[1]][x[2]] : x \in Placements(gs)}

\* C8. Worker placement exclusivity: from a start where no pair occurs twice
\* and every pair on the board has is_placed true, every (player-index,
\* worker-id) pair occurs at most once over all occupancy sequences.
C8_PlacementExclusivity ==
    LET placements == Placements(game_state)
    IN \A x \in placements, y \in placements :
         game_state.main_board_workers[x[1]][x[2]]
             = game_state.main_board_workers[y[1]][y[2]] => x = y

\* Both handlers have placed a worker of the same player, and the other
\* player's worker was on the board from the start.
C8_Witness ==
    /\ Cardinality(OnBoard(game_state)) >= 3
    /\ RESERVE_TURN_ORDER \in DOMAIN game_state.main_board_workers
    /\ AcceptedAcademy

\* The seal the chosen cell held before the call.
TakenSeal == call.before.academy_seals[call.chosen_scroll_row][call.chosen_seal_index + 1]

\* C9. Slot monotonicity: seal_slots_filled <= max_seals holds for every
\* worker whose row is defined; an accepted Academy action raises the placed
\* worker's seal_slots_filled by 1 and the count of the taken colour by 1 and
\* changes no other colour count.
C9_SlotMonotonicity ==
    /\ \A p \in Players : \A i \in DOMAIN game_state.players[p].workers :
         LET worker == game_state.players[p].workers[i]
         IN HasRowDef(worker) => worker.seal_slots_filled <= RowDefOf(worker).max_seals
    /\ AcceptedAcademy =>
         /\ WorkerAfter.seal_slots_filled = WorkerBefore.seal_slots_filled + 1
         /\ \A c \in SealColor :
              WorkerAfter.seals[c] =
                  WorkerBefore.seals[c] + (IF c = TakenSeal THEN 1 ELSE 0)

\* An accepted Academy action that filled the last slot of the row.
C9_Witness ==
    /\ AcceptedAcademy
    /\ WorkerAfter.seal_slots_filled = RowDefOf(WorkerAfter).max_seals
    /\ WorkerAfter.seals[TakenSeal] = 1

\* C10. Non-negative resources: with non-negative costs in the rule tables,
\* every player has coins >= 0 and temporary_knowledge >= 0 in every state.
C10_NonNegativeResources ==
    NonNegativeCosts(all_game_data) =>
        \A p \in Players :
            /\ game_state.players[p].coins >= 0
            /\ game_state.players[p].temporary_knowledge >= 0

\* An accepted Academy action that cost the player the last coin.
C10_Witness ==
    /\ NonNegativeCosts(all_game_data)
    /\ AcceptedAcademy
    /\ ActorBefore.coins > 0
    /\ ActorAfter.coins = 0

(***************************************************************************)
(* Properties of the helpers called on their own (UtilsSpec).              *)
(***************************************************************************)
PenaltyCalled == call.op = "calculate_placement_penalty"
RequirementCalled == call.op = "check_wax_seal_req"

\* The location of a penalty call is of the penalty-bearing placement class.
PenaltyClass ==
    /\ call.location_id \in DOMAIN all_game_data.main_board_actions
    /\ all_game_data.main_board_actions[call.location_id].placement_type
           = "CIRCULAR_MAGNIFYING_GLASS"

\* The occupancy sequence of the location of a penalty call.
OccupancyBefore ==
    IF call.location_id \in DOMAIN call.before.main_board_workers
    THEN call.before.main_board_workers[call.location_id]
    ELSE <<>>

OnlyOwnWorkers ==
    /\ Len(OccupancyBefore) >= 1
    /\ \A i \in DOMAIN OccupancyBefore : OccupancyBefore[i][1] = call.player_index

RequirementWorker == call.before.players[call.player_index].workers[1]
RequirementAvailable == call.before.players[call.player_index].temporary_knowledge

\* max(0, count_needed - seals held) of one colour, 0 for a colour that is
\* not required.
ColourDeficit(seal_color) ==
    IF seal_color \in DOMAIN call.requirements
       /\ call.requirements[seal_color] > RequirementWorker.seals[seal_color]
    THEN call.requirements[seal_color] - RequirementWorker.seals[seal_color]
    ELSE 0

DeficitSum ==
    ColourDeficit("RED") + ColourDeficit("BLUE") + ColourDeficit("GREEN")
        + ColourDeficit("YELLOW") + ColourDeficit("SPECIAL")

\* C12. Requirement resolver: check_wax_seal_req reports satisfiable exactly
\* when the sum over the required colours of max(0, count_needed - seals
\* held) is <= the available temporary knowledge, and when satisfiable
\* returns that sum; a surplus in one colour does not offset a deficit in
\* another, and the call changes neither the worker nor the player.
C12_RequirementResolver ==
    RequirementCalled =>
        /\ call.result[1] <=> (DeficitSum <= RequirementAvailable)
        /\ call.result[1] => call.result[2] = DeficitSum
        /\ game_state = call.before

\* A surplus of RED next to a deficit of BLUE: the deficit is reported whole.
C12_Witness ==
    /\ RequirementCalled
    /\ DOMAIN call.requirements = {"RED", "BLUE"}
    /\ RequirementWorker.seals["RED"] > call.requirements["RED"]
    /\ RequirementWorker.seals["BLUE"] < call.requirements["BLUE"]
    /\ call.result = <<TRUE, DeficitSum>>
    /\ DeficitSum > 0

\* C19. Resolver result when unsatisfiable: when the total deficit exceeds
\* the available temporary knowledge, check_wax_seal_req returns
\* (False, total deficit).
C19_UnsatisfiableResult ==
    (RequirementCalled /\ DeficitSum > RequirementAvailable) =>
        call.result = <<FALSE, DeficitSum>>

ScrollMissing == call.chosen_scroll_row \notin DOMAIN all_game_data.academy_scrolls
BoardMissing == all_game_data.personal_board = <<>>
RowMissing ==
    /\ ~BoardMissing
    /\ \A i \in DOMAIN all_game_data.personal_board[1].worker_rows :
         all_game_data.personal_board[1].worker_rows[i].row_index
             # WorkerBefore.row_index
CostsDefined ==
    /\ ~ScrollMissing /\ ~BoardMissing /\ ~RowMissing
    /\ WorkerBefore.seal_slots_filled < RowDefOf(WorkerBefore).max_seals
    /\ WorkerBefore.seal_slots_filled + 1 \in DOMAIN RowDefOf(WorkerBefore).seal_slots

\* C13. Coin affordability: an Academy request that passes every validation
\* and requirement check (checks 1-5, the seal requirement, the table lookups
\* and the free slot of the worker's row) is rejected with an
\* InsufficientResourcesError exactly when the player's coins are less than
\* placement penalty + scroll cost + slot cost; with coins equal to that
\* total the action is accepted and the player ends with 0 coins.
C13_CoinAffordability ==
    (PassesValidation /\ RequirementCleared /\ CostsDefined) =>
        /\ (call.outcome.kind \in InsufficientResourcesError)
             <=> (ActorBefore.coins < PenaltyBefore + ScrollCost + SlotCost)
        /\ (ActorBefore.coins = PenaltyBefore + ScrollCost + SlotCost)
             => (AcceptedAcademy /\ ActorAfter.coins = 0)

\* A rejection for being one coin short of the total.
C13_Witness ==
    /\ PassesValidation /\ RequirementCleared /\ CostsDefined
    /\ ActorBefore.coins + 1 = PenaltyBefore + ScrollCost + SlotCost
    /\ call.outcome = [kind |-> "InsufficientResourcesError", site |-> "cannot_afford"]

\* C14. Substitute affordability: an Academy request with use_temp_knowledge
\* true that passes checks 1-5 and whose worker's total seal deficit exceeds
\* the player's temporary_knowledge is rejected with an
\* InsufficientResourcesError.
C14_SubstituteAffordability ==
    (PassesValidation /\ call.use_temp_knowledge
       /\ DeficitBefore > ActorBefore.temporary_knowledge)
      => call.outcome.kind \in InsufficientResourcesError

\* C15. Data-integrity faults: for an Academy request that passes checks 1-5
\* and the seal requirement, when the scroll record of the chosen row, the
\* personal-board definition or the row definition of the worker's row_index
\* is missing, the call ends with a GameError that is not an
\* InvalidActionError and the game state is unchanged.
C15_DataIntegrityFaults ==
    (PassesValidation /\ RequirementCleared
       /\ (ScrollMissing \/ BoardMissing \/ RowMissing))
      => /\ call.outcome.kind \in GameError \ InvalidActionError
         /\ game_state = call.before

\* The last of the three lookups fails: scroll and board are there, the
\* worker's row is not.
C15_Witness ==
    /\ PassesValidation /\ RequirementCleared
    /\ ~ScrollMissing /\ RowMissing
    /\ call.outcome = [kind |-> "GameError", site |-> "no_row_def"]

\* C16. Effects of an accepted Academy action: the worker's is_placed becomes
\* true, the pair (player_index, worker_id) is appended at the end of the
\* location's occupancy sequence, the entries before it keep their order, the
\* chosen academy_seals cell becomes empty, and the worker gains exactly the
\* seal colour the cell held before the call.
C16_AcceptedEffects ==
    AcceptedAcademy =>
        /\ WorkerAfter.is_placed
        /\ game_state.main_board_workers[call.location_id]
               = Append(OccupancyBefore, <<call.player_index, call.worker_id>>)
        /\ game_state.academy_seals[call.chosen_scroll_row][call.chosen_seal_index + 1]
               = "NONE"
        /\ \A c \in SealColor :
             WorkerAfter.seals[c] - WorkerBefore.seals[c]
                 = (IF c = TakenSeal THEN 1 ELSE 0)

\* An accepted action at a location where another worker stood already.
C16_Witness ==
    /\ AcceptedAcademy
    /\ Len(OccupancyBefore) >= 1
    /\ Len(game_state.main_board_workers[call.location_id]) = Len(OccupancyBefore) + 1
    /\ WorkerAfter.seals[TakenSeal] = WorkerBefore.seals[TakenSeal] + 1

Resubmitted ==
    IF call.op = "academy"
    THEN perform_academy_action(game_state, call.player_index, call.worker_id,
             call.location_id, call.chosen_scroll_row, call.chosen_seal_index,
             call.use_temp_knowledge, all_game_data)
    ELSE perform_reserve_turn_order(game_state, call.player_index, call.worker_id)

\* C18. Idempotent rejection: when an Academy or Reserve-Turn-Order request
\* is rejected, the identical request submitted again on the resulting state
\* is rejected with the same error, and the state after both calls equals the
\* state before the first.
C18_IdempotentRejection ==
    Failed =>
        LET again == Resubmitted
        IN /\ again.outcome = call.outcome
           /\ again.game_state = call.before

\* A Reserve-Turn-Order request for a worker that an Academy action placed
\* earlier in the run.
C18_Witness ==
    /\ Failed
    /\ call.op = "reserve"
    /\ call.outcome.site = "already_placed"
    /\ \E k \in DOMAIN game_state.main_board_workers \ {RESERVE_TURN_ORDER} :
         \E i \in DOMAIN game_state.main_board_workers[k] :
           game_state.main_board_workers[k][i] = <<call.player_index, call.worker_id>>
    /\ Resubmitted.outcome = call.outcome

(***************************************************************************)
(* Properties over sequences of calls (Spec).                              *)
(***************************************************************************)
GridRows == 1 .. Len(FixtureGrid)
GridColumns == 1 .. Len(FixtureGrid[1])

\* The step is a call of perform_academy_action, and the cell it names.
AcademyStep == call.op = "none" /\ call'.op = "academy"
NamesCell ==
    /\ call'.chosen_scroll_row \in GridRows
    /\ call'.chosen_seal_index + 1 \in GridColumns

\* C21. Academy cells are consumed once: an empty cell of academy_seals never
\* becomes non-empty again, an accepted Academy action empties exactly the
\* chosen cell and no other, and an Academy request naming an emptied cell is
\* rejected; hence at most 12 Academy actions are ever accepted: each leaves
\* one more of the 12 cells empty.
C21_CellsConsumedOnce ==
    [][ /\ \A r \in GridRows, c \in GridColumns :
             game_state.academy_seals[r][c] = "NONE"
                 => game_state'.academy_seals[r][c] = "NONE"
        /\ (AcademyStep /\ call'.outcome.kind = "OK") =>
             \A r \in GridRows, c \in GridColumns :
                 game_state'.academy_seals[r][c] =
                     (IF r = call'.chosen_scroll_row /\ c = call'.chosen_seal_index + 1
                      THEN "NONE" ELSE game_state.academy_seals[r][c])
        /\ (AcademyStep /\ call'.outcome.kind = "OK") =>
             (NamesCell /\ game_state.academy_seals[call'.chosen_scroll_row]
                                                   [call'.chosen_seal_index + 1] # "NONE")
        /\ (AcademyStep /\ NamesCell
              /\ game_state.academy_seals[call'.chosen_scroll_row]
                                         [call'.chosen_seal_index + 1] = "NONE") =>
             (call'.outcome.kind # "OK" /\ game_state' = game_state)
      ]_vars

\* A request, sound in every other respect, that names a cell an earlier
\* Academy action of the run emptied.
C21_Witness ==
    /\ call.op = "academy"
    /\ call.outcome = [kind |-> "InvalidActionError", site |-> "no_seal"]
    /\ FixtureGrid[call.chosen_scroll_row][call.chosen_seal_index + 1] # "NONE"
    /\ game_state.academy_seals[call.chosen_scroll_row][call.chosen_seal_index + 1]
           = "NONE"

\* The step is an accepted call that names worker i (a position in the
\* workers list) of player p.
AcceptedFor(p, i) ==
    /\ call.op = "none" /\ call'.op \in {"academy", "reserve"}
    /\ call'.outcome.kind = "OK"
    /\ call'.player_index = p
    /\ call'.worker_id = game_state.players[p].workers[i].worker_id

\* C22. is_placed is monotone inside the engine: over any sequence of Academy
\* and Reserve-Turn-Order calls a worker's is_placed changes only from false
\* to true, only for the worker named in an accepted request, and once true
\* never returns to false.
C22_IsPlacedMonotone ==
    [][ \A p \in Players : \A i \in DOMAIN game_state.players[p].workers :
          LET before == game_state.players[p].workers[i]
              after == game_state'.players[p].workers[i]
          IN /\ HasIsPlaced(after) = HasIsPlaced(before)
             /\ HasIsPlaced(before) =>
                  /\ before.is_placed => after.is_placed
                  /\ (after.is_placed # before.is_placed) => AcceptedFor(p, i)
      ]_vars

\* The second worker of a player is placed by Reserve-Turn-Order while the
\* first, placed by an earlier call, stays placed.
C22_Witness ==
    /\ AcceptedReserve
    /\ ~WorkerBefore.is_placed /\ WorkerAfter.is_placed
    /\ \E i \in DOMAIN ActorBefore.workers :
         i # WorkerPos /\ ActorBefore.workers[i].is_placed /\ ActorAfter.workers[i].is_placed

SealCount(worker) ==
    worker.seals["RED"] + worker.seals["BLUE"] + worker.seals["GREEN"]
        + worker.seals["YELLOW"] + worker.seals["SPECIAL"]

\* C24. Seal/slot correspondence: from a start where each worker's
\* seal_slots_filled equals the sum of its per-colour seal counts, after any
\* sequence of Academy and Reserve-Turn-Order calls every worker's
\* seal_slots_filled equals the sum over the colours of its seals map.
C24_SealSlotCorrespondence ==
    \A p \in Players : \A i \in DOMAIN game_state.players[p].workers :
        game_state.players[p].workers[i].seal_slots_filled
            = SealCount(game_state.players[p].workers[i])

\* A worker that started with seals has taken one more, of another colour.
C24_Witness ==
    /\ AcceptedAcademy
    /\ WorkerBefore.seal_slots_filled >= 2
    /\ WorkerBefore.seals[TakenSeal] = 0
    /\ WorkerAfter.seal_slots_filled = SealCount(WorkerAfter)

\* The call with another column of the same scroll row, made on the state the
\* recorded call was made on.
OtherColumn(index) ==
    perform_academy_action(call.before, call.player_index, call.worker_id,
        call.location_id, call.chosen_scroll_row, index,
        call.use_temp_knowledge, all_game_data)

\* C25. Slot cost depends only on the fill count: the slot cost of an Academy
\* action is the placement cost of slot number seal_slots_filled of the
\* worker's row, so two requests made from the same state that differ only in
\* chosen_seal_index, both cells holding a seal, cost the same: both are
\* accepted with the same debit, or both rejected with the same error.
C25_SlotCostByFillCount ==
    /\ AcceptedAcademy =>
         ActorBefore.coins - ActorAfter.coins - PenaltyBefore - ScrollCost
             = RowDefOf(WorkerBefore)
                   .seal_slots[WorkerBefore.seal_slots_filled + 1].placement_cost
    /\ PassesValidation =>
         \A index \in MinSealIndex .. MaxSealIndex :
             call.before.academy_seals[call.chosen_scroll_row][index + 1] # "NONE" =>
                 LET other == OtherColumn(index)
                 IN /\ other.outcome = call.outcome
                    /\ other.game_state.players[call.player_index].coins
                           = ActorAfter.coins

\* An accepted action that took a seal of one colour where the same row
\* offered another colour in another column, for a worker past its first slot.
C25_Witness ==
    /\ AcceptedAcademy
    /\ WorkerBefore.seal_slots_filled >= 1
    /\ \E index \in MinSealIndex .. MaxSealIndex :
         /\ index # call.chosen_seal_index
         /\ call.before.academy_seals[call.chosen_scroll_row][index + 1]
                \notin {"NONE", TakenSeal}
         /\ OtherColumn(index).outcome.kind = "OK"

\* C26. Setup yields placeable workers: every worker of the game state
\* returned by setup_game carries an is_placed flag whose value is false, so
\* a request by the current player that names one of that player's workers,
\* built as setup_game builds it, passes the worker-availability check.
C26_SetupPlaceable ==
    (Called /\ ~WrongTurn /\ ~WorkerMissing
       /\ WorkerBefore = SetupWorker(call.worker_id, WorkerBefore.seals))
      => /\ HasIsPlaced(WorkerBefore)
         /\ ~WorkerBefore.is_placed
         /\ call.outcome.site \notin CheckSites[3]

\* What an accepted Academy action may change, taken from the state it left,
\* on top of the state it was made on.
AcademyFrame ==
    [call.before EXCEPT
        !.players[call.player_index] =
            [@ EXCEPT
                !.coins = ActorAfter.coins,
                !.temporary_knowledge = ActorAfter.temporary_knowledge,
                !.workers[WorkerPos] =
                    [@ EXCEPT !.is_placed = WorkerAfter.is_placed,
                              !.seals = WorkerAfter.seals,
                              !.seal_slots_filled = WorkerAfter.seal_slots_filled]],
        !.main_board_workers =
            [k \in DOMAIN call.before.main_board_workers \cup {call.location_id} |->
                IF k = call.location_id
                THEN game_state.main_board_workers[k]
                ELSE call.before.main_board_workers[k]],
        !.academy_seals[call.chosen_scroll_row][call.chosen_seal_index + 1] =
            game_state.academy_seals[call.chosen_scroll_row][call.chosen_seal_index + 1]]

\* C27. Frame of an accepted Academy action: it changes only the acting
\* player's coins and temporary_knowledge, the named worker's is_placed,
\* seals and seal_slots_filled, the chosen location's occupancy sequence and
\* the chosen cell; current_player_index, turn_order, the other player, the
\* player's other workers, available_seals, every other cell and every other
\* location's occupancy sequence are unchanged.
C27_AcademyFrame == AcceptedAcademy => game_state = AcademyFrame

\* An accepted action while another location and the other player's worker
\* are on the board.
C27_Witness ==
    /\ AcceptedAcademy
    /\ DOMAIN call.before.main_board_workers \ {call.location_id} # {}
    /\ \E p \in Players \ {call.player_index} :
         \E i \in DOMAIN game_state.players[p].workers :
           game_state.players[p].workers[i].is_placed
    /\ game_state.available_seals = call.before.available_seals

\* C28. Flag and board agree: from a start where each worker's is_placed is
\* true exactly when its (player-index, worker-id) pair occurs in some
\* occupancy sequence, that equivalence holds after every sequence of Academy
\* and Reserve-Turn-Order calls, accepted or rejected.
C28_FlagAndBoardAgree ==
    LET on_board == OnBoard(game_state)
    IN \A p \in Players : \A i \in DOMAIN game_state.players[p].workers :
         LET worker == game_state.players[p].workers[i]
         IN HasIsPlaced(worker) =>
              (worker.is_placed <=> <<p, worker.worker_id>> \in on_board)

\* One worker of the player is on the board and flagged, through an Academy
\* action, and the player's other worker is neither.
C28_Witness ==
    /\ AcceptedAcademy
    /\ WorkerAfter.is_placed
    /\ <<call.player_index, call.worker_id>> \in OnBoard(game_state)
    /\ \E i \in DOMAIN ActorAfter.workers :
         /\ ~ActorAfter.workers[i].is_placed
         /\ <<call.player_index, ActorAfter.workers[i].worker_id>> \notin OnBoard(game_state)

\* The workers of the current player that a request can still place.
Unplaced(gs) ==
    {i \in DOMAIN gs.players[gs.current_player_index].workers :
        /\ HasIsPlaced(gs.players[gs.current_player_index].workers[i])
        /\ ~gs.players[gs.current_player_index].workers[i].is_placed}

CallStep == call.op = "none" /\ call'.op \in {"academy", "reserve"}

\* C29. Bounded acceptance: neither handler changes current_player_index or
\* un-places a worker, and every accepted action places one more worker of
\* the current player p; so the number of accepted actions is at most the
\* number of p's workers with is_placed false at the start, and once all of
\* p's workers are placed every further request is rejected.
C29_BoundedAcceptance ==
    [][ /\ game_state'.current_player_index = game_state.current_player_index
        /\ Unplaced(game_state') \subseteq Unplaced(game_state)
        /\ (CallStep /\ call'.outcome.kind = "OK") =>
             Cardinality(Unplaced(game_state')) = Cardinality(Unplaced(game_state)) - 1
        /\ (CallStep /\ Unplaced(game_state) = {}) => call'.outcome.kind # "OK"
      ]_vars

\* Every worker of the current player has been placed by the calls of the
\* run, and a further request of that player, for one of them, is rejected.
C29_Witness ==
    /\ Failed
    /\ ~WrongTurn /\ ~WorkerMissing
    /\ Unplaced(game_state) = {}
    /\ \A i \in DOMAIN ActorAfter.workers :
         <<call.player_index, ActorAfter.workers[i].worker_id>> \in OnBoard(game_state)

\* The tables and the state of the call with the lock of its location turned
\* round: the locked flag flipped, the unlock cost changed, the location put
\* into or taken out of unlocked_locations.
Relocked ==
    IF LocationUnknown THEN all_game_data
    ELSE [all_game_data EXCEPT
             !.main_board_actions[call.location_id] =
                 [@ EXCEPT !.locked = ~@,
                           !.unlock_cost = IF @ = <<>> THEN <<UnlockCost>> ELSE <<>>]]
Reunlocked(unlocked_locations) ==
    IF call.location_id \in unlocked_locations
    THEN unlocked_locations \ {call.location_id}
    ELSE unlocked_locations \cup {call.location_id}
RelockedCall ==
    perform_academy_action(
        [call.before EXCEPT !.unlocked_locations = Reunlocked(@)],
        call.player_index, call.worker_id, call.location_id,
        call.chosen_scroll_row, call.chosen_seal_index, call.use_temp_knowledge,
        Relocked)

\* C30. Lock state is not consulted: the outcome of perform_academy_action
\* is the same for two rule-table/state pairs that differ only in the target
\* location's locked flag, its unlock_cost or the content of
\* unlocked_locations; a request at a locked ACADEMY location that no one has
\* unlocked is accepted when all other checks pass.
C30_LockNotConsulted ==
    call.op = "academy" =>
        /\ LET relocked == RelockedCall
           IN /\ relocked.outcome = call.outcome
              /\ [relocked.game_state EXCEPT
                     !.unlocked_locations = call.before.unlocked_locations] = game_state
        /\ (PassesValidation /\ RequirementCleared /\ CostsDefined
              /\ ActorBefore.coins >= PenaltyBefore + ScrollCost + SlotCost
              /\ PenaltyBefore + ScrollCost + SlotCost >= 0)
             => AcceptedAcademy

\* An accepted action at a locked location that is not among the unlocked.
C30_Witness ==
    /\ AcceptedAcademy
    /\ CallLocation.locked
    /\ CallLocation.unlock_cost # <<>>
    /\ call.location_id \notin call.before.unlocked_locations

====
